---- MODULE Spec2Model ----
(***************************************************************************)
(* Model of urlfetch/main.py: a file of URLs is read into a queue, one     *)
(* task per queue entry is submitted to a ThreadPoolExecutor, every task   *)
(* runs get_url_content, which records its outcome in the global counters  *)
(* under stats_lock.                                                       *)
(*                                                                         *)
(* Strings are sequences of one-character strings.  Calls the source       *)
(* guards with a handler (everything a task runs: requests.get,            *)
(* raise_for_status, response.text and the writes to stdout) may raise;    *)
(* which of their outcomes happens is chosen by the environment.           *)
(***************************************************************************)
EXTENDS Naturals, Integers, Sequences, FiniteSets, TLC

(* ---------------------------- bounds ----------------------------------- *)
MaxLines == 2
MaxUrls == 2
MaxPool == 2
MaxArgc == 3
MaxReadLines == 2

(* ---------------------------- strings ---------------------------------- *)
Whitespace == {" ", "\n"}

PfxHttp == <<"h", "t", "t", "p">>
PfxHttps == <<"h", "t", "t", "p", "s">>
PfxWww == <<"w", "w", "w", ".">>
SchemeHttp == <<"h", "t", "t", "p", ":", "/", "/">>
SchemeHttps == <<"h", "t", "t", "p", "s", ":", "/", "/">>

LineUrl == <<"h", "t", "t", "p", ":", "/", "/", "a", "\n">>
LineWww == <<"w", "w", "w", ".", "b", "\n">>
Lines == {LineUrl, LineWww}

startswith(s, p) == Len(s) >= Len(p) /\ SubSeq(s, 1, Len(p)) = p

RECURSIVE lstrip(_)
lstrip(s) == IF s # <<>> /\ Head(s) \in Whitespace THEN lstrip(Tail(s)) ELSE s

RECURSIVE rstrip(_)
rstrip(s) ==
    IF s # <<>> /\ s[Len(s)] \in Whitespace THEN rstrip(SubSeq(s, 1, Len(s) - 1)) ELSE s

strip(s) == rstrip(lstrip(s))

\* as if the https entry were put before the http entry
LineEntriesHttpsFirst(line) ==
    LET url == strip(line)
        host == IF startswith(url, PfxWww) THEN SubSeq(url, 5, Len(url)) ELSE url
    IN  IF startswith(url, PfxHttp) \/ startswith(url, PfxHttps)
        THEN <<url>>
        ELSE <<SchemeHttps \o host, SchemeHttp \o host>>

(* The entries one line of the file adds to the queue, in order. *)
LineEntries(line) ==
    LET url == strip(line)
        host == IF startswith(url, PfxWww) THEN SubSeq(url, 5, Len(url)) ELSE url
    IN  IF startswith(url, PfxHttp) \/ startswith(url, PfxHttps)
        THEN <<url>>
        ELSE <<SchemeHttp \o host, SchemeHttps \o host>>

RECURSIVE FileEntries(_)
FileEntries(f) == IF f = <<>> THEN <<>> ELSE LineEntries(Head(f)) \o FileEntries(Tail(f))

Files ==
    {f \in UNION {[1..k -> Lines] : k \in 0..MaxLines} : Len(FileEntries(f)) <= MaxUrls}

\* the lines read_urls_from_file is examined on by itself
LineHttps == <<"h", "t", "t", "p", "s", ":", "/", "/", "a", "\n">>
LineHost == <<"b", "\n">>
LineBlank == <<"\n">>
LineSpaces == <<" ", " ", "\n">>
LineHttpHost == <<"h", "t", "t", "p", "b", "i", "n", "\n">>
LinePaddedWww == <<" ", "w", "w", "w", ".", "b", " ", "\n">>
LinePaddedUrl == <<" ", "h", "t", "t", "p", ":", "/", "/", "a", "\n">>
LineWwwWww == <<"w", "w", "w", ".", "w", "w", "w", ".", "b", "\n">>
ReadLines ==
    {LineUrl, LineHttps, LineWww, LineHost, LineBlank, LineSpaces, LineHttpHost,
     LinePaddedWww, LinePaddedUrl, LineWwwWww}

ReadFiles == UNION {[1..k -> ReadLines] : k \in 0..MaxReadLines}

(* ---------------------------- state ------------------------------------ *)
VARIABLES
    argc,                 \* len(sys.argv)
    exists,               \* os.path.exists(sys.argv[1])
    file,                 \* the lines of the input file
    PoolSize,             \* max_workers of the ThreadPoolExecutor
    mpc,                  \* position of the main thread
    msg,                  \* what main printed: "none", "usage", "nofile"
    lineIdx,              \* lines of the file read so far
    url_queue,            \* queue.Queue of URLs
    total_urls_in_queue,
    processed_urls,
    failed_urls,
    stats_lock,           \* 0 when free, else the task holding it
    nsnap,                \* range(url_queue.qsize()) of process_urls
    futures,              \* future_results, one record per submitted task
    observed,             \* futures whose result() returned in the await loop
    fetched,              \* the URLs get_url_content was called with, in call order
    term                  \* the terminal: the status-block render in progress

vars == <<argc, exists, file, PoolSize, mpc, msg, lineIdx, url_queue,
          total_urls_in_queue, processed_urls, failed_urls, stats_lock,
          nsnap, futures, observed, fetched, term>>

mainVars == <<argc, exists, file, PoolSize, msg, lineIdx>>
counters == <<total_urls_in_queue, processed_urls, failed_urls>>

Tasks == 1..Len(futures)

Outcomes == {"ok", "http_error", "request_exception", "other_exception"}

\* as if the task were submitted without its URL, to fetch it itself later
NewTaskNoUrl(url) ==
    [url |-> <<>>, st |-> "queued", pc |-> "call", outcome |-> "none",
     site |-> "none", success |-> FALSE, tmp |-> 0,
     calls |-> <<>>, incs |-> <<>>, result |-> "pending"]

NewTask(url) ==
    [url |-> url, st |-> "queued", pc |-> "call", outcome |-> "none",
     site |-> "none", success |-> FALSE, tmp |-> 0,
     calls |-> <<>>, incs |-> <<>>, result |-> "pending"]

\* clear_previous_lines(7) in update_and_print_statistics
NumLinesCleared == 7
\* the three counter lines of the status block
CounterLines == 3
\* print("\n") writes the newline of its argument and the newline print adds
BlankLines == 2

\* The terminal.  owner: the task whose render (erase, then status block) is
\* in progress, 0 when none is.  erased: the lines that render's
\* clear_previous_lines erased.  printed: the lines the last render printed.
\* Both are the set of counts the terminal may hold: one number when every
\* write succeeded, a range when a write raised part-way.
NoRender(printed) == [owner |-> 0, erased |-> {0}, printed |-> printed]

\* the writes of one group, cut short by one that raises
Partial(n) == 0..(n - 1)

Init ==
    /\ argc \in 1..MaxArgc
    /\ exists \in BOOLEAN
    /\ file \in Files
    /\ PoolSize \in 1..MaxPool
    /\ mpc = "main"
    /\ msg = "none"
    /\ lineIdx = 0
    /\ url_queue = <<>>
    /\ total_urls_in_queue = 0
    /\ processed_urls = 0
    /\ failed_urls = 0
    /\ stats_lock = 0
    /\ nsnap = 0
    /\ futures = <<>>
    /\ observed = {}
    /\ fetched = <<>>
    /\ term = NoRender({0})

(* ---------------------------- main thread ------------------------------ *)
\* as if main tested len(sys.argv) < 2
ArgsAtLeastOne == argc >= 2

ArgsOk == argc = 2

\* main: the argument and path checks
MainArgs ==
    /\ mpc = "main"
    /\ IF ~ArgsOk
       THEN mpc' = "exit" /\ msg' = "usage"
       ELSE IF exists
            THEN mpc' = "read" /\ msg' = msg
            ELSE mpc' = "exit" /\ msg' = "nofile"
    /\ UNCHANGED <<argc, exists, file, PoolSize, lineIdx, url_queue, counters,
                   stats_lock, nsnap, futures, observed, fetched, term>>

\* read_urls_from_file: one iteration of the loop over the lines
ReadLine ==
    /\ mpc = "read"
    /\ lineIdx < Len(file)
    /\ LET entries == LineEntries(file[lineIdx + 1])
       IN  /\ url_queue' = url_queue \o entries
           /\ total_urls_in_queue' = total_urls_in_queue + Len(entries)
    /\ lineIdx' = lineIdx + 1
    /\ UNCHANGED <<argc, exists, file, PoolSize, mpc, msg, processed_urls,
                   failed_urls, stats_lock, nsnap, futures, observed, fetched, term>>

\* as if the snapshot missed the last entry
qsizeShort(q) == IF Len(q) > 0 THEN Len(q) - 1 ELSE 0

\* as if an empty queue still got one task
qsizeAtLeastOne(q) == IF Len(q) = 0 THEN 1 ELSE Len(q)

\* as if the range ran one past the size
qsizeLong(q) == Len(q) + 1

qsize(q) == Len(q)

\* read_urls_from_file returns; process_urls opens the executor and
\* evaluates range(url_queue.qsize()) once
EnterProcess ==
    /\ mpc = "read"
    /\ lineIdx = Len(file)
    /\ nsnap' = qsize(url_queue)
    /\ mpc' = "submit"
    /\ UNCHANGED <<mainVars, url_queue, counters, stats_lock, futures, observed, fetched, term>>

\* one iteration of the comprehension: url_queue.get() in the main thread,
\* then executor.submit
Submit ==
    /\ mpc = "submit"
    /\ Len(futures) < nsnap
    /\ url_queue # <<>>
    /\ futures' = Append(futures, NewTask(Head(url_queue)))
    /\ url_queue' = Tail(url_queue)
    /\ UNCHANGED <<mainVars, mpc, counters, stats_lock, nsnap, observed, fetched, term>>

SubmitDone ==
    /\ mpc = "submit"
    /\ Len(futures) = nsnap
    /\ mpc' = "await"
    /\ UNCHANGED <<mainVars, url_queue, counters, stats_lock, nsnap, futures, observed, fetched, term>>

\* as_completed yields a finished future; future.result() returns, or
\* re-raises the task's exception, whose handler evaluates future.url
Observe(t) ==
    /\ mpc = "await"
    /\ t \in Tasks \ observed
    /\ futures[t].st = "done"
    /\ IF futures[t].result = "exception"
       THEN mpc' = "unwind" /\ observed' = observed
       ELSE mpc' = mpc /\ observed' = observed \cup {t}
    /\ UNCHANGED <<mainVars, url_queue, counters, stats_lock, nsnap, futures, fetched, term>>

AwaitDone ==
    /\ mpc = "await"
    /\ observed = Tasks
    /\ mpc' = "shutdown"
    /\ UNCHANGED <<mainVars, url_queue, counters, stats_lock, nsnap, futures, observed, fetched, term>>

\* as if the executor were left with shutdown(wait=False)
NoWait == TRUE

AllTasksDone == \A t \in Tasks : futures[t].st = "done"

\* ThreadPoolExecutor.__exit__: shutdown(wait=True)
Shutdown ==
    /\ mpc \in {"shutdown", "unwind"}
    /\ AllTasksDone
    /\ mpc' = IF mpc = "shutdown" THEN "returned" ELSE "raised"
    /\ UNCHANGED <<mainVars, url_queue, counters, stats_lock, nsnap, futures, observed, fetched, term>>

\* back in main: process_urls returned, or its exception leaves main
MainExit ==
    /\ mpc \in {"returned", "raised"}
    /\ mpc' = IF mpc = "returned" THEN "exit" ELSE "crashed"
    /\ UNCHANGED <<mainVars, url_queue, counters, stats_lock, nsnap, futures, observed, fetched, term>>

(* ---------------------------- worker threads --------------------------- *)
Running == {t \in Tasks : futures[t].st = "running"}

SetTask(t, r) == futures' = [futures EXCEPT ![t] = r]

\* a free worker takes the oldest queued work item and calls get_url_content
Start(t) ==
    /\ t \in Tasks
    /\ futures[t].st = "queued"
    /\ \A u \in 1..(t - 1) : futures[u].st # "queued"
    /\ Cardinality(Running) < PoolSize
    /\ SetTask(t, [futures[t] EXCEPT !.st = "running", !.pc = "request"])
    /\ fetched' = Append(fetched, futures[t].url)
    /\ UNCHANGED <<mainVars, mpc, url_queue, counters, stats_lock, nsnap, observed, term>>

\* requests.get(url) and response.raise_for_status()
Request(t) ==
    /\ t \in Tasks
    /\ futures[t].pc = "request"
    /\ \E o \in Outcomes :
         SetTask(t, [futures[t] EXCEPT
             !.outcome = o,
             !.pc = CASE o = "ok" -> "lock"
                      [] o \in {"http_error", "request_exception"} -> "except_request"
                      [] OTHER -> "except_other",
             !.site = IF o = "ok" THEN "try" ELSE "none",
             !.success = (o = "ok"),
             !.calls = IF o = "ok" THEN Append(@, TRUE) ELSE @])
    /\ UNCHANGED <<mainVars, mpc, url_queue, counters, stats_lock, nsnap, observed, fetched, term>>

\* the task's future is set: a result, or the exception that left the call
Finish(r, res) ==
    [r EXCEPT !.st = "done", !.pc = "done", !.site = "none", !.success = FALSE,
              !.result = res]

\* an except clause of get_url_content: the print, then the call of
\* update_and_print_statistics(success=False)
Handler(t) ==
    /\ t \in Tasks
    /\ futures[t].pc \in {"except_request", "except_other"}
    /\ \E printed \in BOOLEAN :
         IF printed
         THEN SetTask(t, [futures[t] EXCEPT !.pc = "lock", !.site = "handler",
                                            !.success = FALSE,
                                            !.calls = Append(@, FALSE)])
         ELSE SetTask(t, Finish(futures[t], "exception"))
    /\ UNCHANGED <<mainVars, mpc, url_queue, counters, stats_lock, nsnap, observed, fetched, term>>

\* as if update_and_print_statistics did not take the lock
LockIgnored == TRUE

LockFree == stats_lock = 0

\* as if the lock were taken with acquire() and released with release() at
\* the end of the function, without try/finally
ExitNoFinally(t, raised) == IF raised THEN t ELSE 0

\* the with statement's exit: the lock is released, raised or not
ExitWith(t, raised) == 0

\* update_and_print_statistics is left by an exception: back in
\* get_url_content, in the try block or in an except clause
Raised(r) ==
    IF r.site = "try" THEN [r EXCEPT !.pc = "except_other", !.site = "none"]
    ELSE Finish(r, "exception")

\* update_and_print_statistics returns to its call site
Returned(r) ==
    IF r.site = "try" THEN [r EXCEPT !.pc = "text", !.site = "none"]
    ELSE Finish(r, "none")

\* with stats_lock: the lock is acquired, then clear_previous_lines(7): the
\* writes succeed (or one raises and the handler's print succeeds), or that
\* print raises too and the with statement releases the lock
Acquire(t) ==
    /\ t \in Tasks
    /\ futures[t].pc = "lock"
    /\ LockFree
    /\ \/ /\ SetTask(t, [futures[t] EXCEPT !.pc = "load"])
          /\ stats_lock' = t
          /\ \E erased \in {{NumLinesCleared}, Partial(NumLinesCleared)} :
                 term' = [term EXCEPT !.owner = t, !.erased = erased]
       \/ /\ SetTask(t, Raised(futures[t]))
          /\ stats_lock' = ExitWith(t, TRUE)
          /\ term' = NoRender(term.printed)
    /\ UNCHANGED <<mainVars, mpc, url_queue, counters, nsnap, observed, fetched>>

\* the counter += 1, its read
Load(t) ==
    /\ t \in Tasks
    /\ futures[t].pc = "load"
    /\ SetTask(t, [futures[t] EXCEPT
           !.pc = "store",
           !.tmp = IF futures[t].success THEN processed_urls ELSE failed_urls])
    /\ UNCHANGED <<mainVars, mpc, url_queue, counters, stats_lock, nsnap, observed, fetched, term>>

\* the counter += 1, its write; then the four prints of the status block,
\* and the with statement releases the lock
Store(t) ==
    /\ t \in Tasks
    /\ futures[t].pc = "store"
    /\ IF futures[t].success
       THEN processed_urls' = futures[t].tmp + 1 /\ failed_urls' = failed_urls
       ELSE failed_urls' = futures[t].tmp + 1 /\ processed_urls' = processed_urls
    /\ LET r == [futures[t] EXCEPT !.tmp = 0, !.incs = Append(@, futures[t].success)]
       IN  \/ /\ SetTask(t, Returned(r))
              /\ stats_lock' = ExitWith(t, FALSE)
              /\ term' = NoRender({CounterLines + BlankLines})
           \/ /\ SetTask(t, Raised(r))
              /\ stats_lock' = ExitWith(t, TRUE)
              /\ term' = NoRender(Partial(CounterLines + BlankLines))
    /\ UNCHANGED <<mainVars, mpc, url_queue, total_urls_in_queue, nsnap, observed, fetched>>

\* return response.text
Text(t) ==
    /\ t \in Tasks
    /\ futures[t].pc = "text"
    /\ \E decoded \in BOOLEAN :
         SetTask(t, IF decoded THEN Finish(futures[t], "body")
                    ELSE [futures[t] EXCEPT !.pc = "except_other"])
    /\ UNCHANGED <<mainVars, mpc, url_queue, counters, stats_lock, nsnap, observed, fetched, term>>

Worker(t) ==
    \/ Start(t)
    \/ Request(t)
    \/ Handler(t)
    \/ Acquire(t)
    \/ Load(t)
    \/ Store(t)
    \/ Text(t)

Next ==
    \/ MainArgs
    \/ ReadLine
    \/ EnterProcess
    \/ Submit
    \/ SubmitDone
    \/ \E t \in Tasks : Observe(t)
    \/ AwaitDone
    \/ Shutdown
    \/ MainExit
    \/ \E t \in Tasks : Worker(t)

Spec == Init /\ [][Next]_vars

(* The threads are scheduled fairly: the main thread and every worker that
   can take a step eventually takes one; a request eventually returns or
   raises. *)
TaskIds == 1..MaxUrls

MainThread ==
    \/ MainArgs
    \/ ReadLine
    \/ EnterProcess
    \/ Submit
    \/ SubmitDone
    \/ \E t \in Tasks : Observe(t)
    \/ AwaitDone
    \/ Shutdown
    \/ MainExit

FairSpec ==
    /\ Spec
    /\ WF_vars(MainThread)
    /\ \A t \in TaskIds : WF_vars(Worker(t))

(* read_urls_from_file by itself, on files of every kind of line *)
InitRead ==
    /\ argc = 2
    /\ exists = TRUE
    /\ file \in ReadFiles
    /\ PoolSize = 1
    /\ mpc = "main"
    /\ msg = "none"
    /\ lineIdx = 0
    /\ url_queue = <<>>
    /\ total_urls_in_queue = 0
    /\ processed_urls = 0
    /\ failed_urls = 0
    /\ stats_lock = 0
    /\ nsnap = 0
    /\ futures = <<>>
    /\ observed = {}
    /\ fetched = <<>>
    /\ term = NoRender({0})

NextRead == MainArgs \/ ReadLine

SpecRead == InitRead /\ [][NextRead]_vars

TypeOK ==
    /\ processed_urls \in Nat
    /\ failed_urls \in Nat
    /\ stats_lock \in {0} \cup Tasks

(* ---------------------------- properties ------------------------------- *)
Done(t) == futures[t].st = "done"

Occurrences(seq, x) == Cardinality({i \in 1..Len(seq) : seq[i] = x})

\* C1: once process_urls has returned, processed_urls + failed_urls equals
\* total_urls_in_queue.
C1_SumEqualsTotalOnReturn ==
    mpc = "returned" => processed_urls + failed_urls = total_urls_in_queue

\* C2: in every reachable state processed_urls + failed_urls is at most
\* total_urls_in_queue.
C2_SumAtMostTotal == processed_urls + failed_urls <= total_urls_in_queue

\* C3: a finished call of get_url_content has called
\* update_and_print_statistics exactly once, with success=True exactly when
\* the GET completed with a non-error status.
C3_ExactlyOneUpdate ==
    \A t \in Tasks :
        Done(t) => futures[t].calls = <<futures[t].outcome = "ok">>

\* C4: when process_urls exits, get_url_content has been called exactly once
\* for every entry read_urls_from_file enqueued and for nothing else, and no
\* entry is left in the queue; at no time has an entry been fetched more
\* often than it was enqueued.
C4_OneFetchPerEntry ==
    LET entries == FileEntries(file)
    IN  /\ \A i \in 1..Len(fetched) :
               Occurrences(fetched, fetched[i]) <= Occurrences(entries, fetched[i])
        /\ mpc \in {"returned", "raised"} =>
               /\ url_queue = <<>>
               /\ Len(fetched) = Len(entries)
               /\ \A i \in 1..Len(entries) :
                      Occurrences(fetched, entries[i]) = Occurrences(entries, entries[i])

C4_Witness == mpc = "returned" /\ Len(fetched) = 2 /\ PoolSize = 2

\* C5: for every pool size and interleaving the final processed_urls is the
\* number of URLs whose request succeeded and the final failed_urls is the
\* number of URLs whose request failed.
C5_FinalCountersMatchOutcomes ==
    mpc = "returned" =>
        /\ processed_urls = Cardinality({t \in Tasks : futures[t].outcome = "ok"})
        /\ failed_urls = Cardinality({t \in Tasks : futures[t].outcome # "ok"})

\* C6: a fetch whose request raised or returned an error status has
\* incremented failed_urls once and processed_urls never; only a fetch whose
\* request returned a non-error status has incremented processed_urls.
C6_FailureClassified ==
    \A t \in Tasks :
        /\ (Done(t) /\ futures[t].outcome # "ok") => futures[t].incs = <<FALSE>>
        /\ Occurrences(futures[t].incs, TRUE) > 0 => futures[t].outcome = "ok"

\* C7: when the request or the status check raised, get_url_content returns
\* None and the future completes without an exception.
C7_FetchErrorsContained ==
    \A t \in Tasks :
        (Done(t) /\ futures[t].outcome # "ok") => futures[t].result = "none"

\* C8: when process_urls has been left, by return or by exception, every
\* entry of the size snapshot has been submitted and every submitted task is
\* in a terminal state.
C8_NoExitBeforeTasksEnd ==
    mpc \in {"returned", "raised", "exit", "crashed"} =>
        /\ Len(futures) = nsnap
        /\ \A t \in Tasks : futures[t].st = "done" /\ futures[t].result # "pending"

C8_Witness ==
    /\ mpc = "raised"
    /\ \E t \in Tasks : t \notin observed /\ futures[t].result \in {"body", "none"}

\* C9: a task that ended with an exception does not abort the await loop and
\* does not make process_urls raise.
C9_TaskExceptionLogged ==
    (\E t \in Tasks : futures[t].result = "exception") =>
        mpc \notin {"unwind", "raised", "crashed"}

\* C10: with an argument count other than one, or a path that does not
\* exist, main reads no file, builds no queue, starts no task, fetches
\* nothing, leaves the counters at zero and ends after printing the usage
\* text or 'File does not exist'.
C10_InputErrorsDoNothing ==
    (argc # 2 \/ ~exists) =>
        /\ mpc \in {"main", "exit"}
        /\ lineIdx = 0 /\ url_queue = <<>> /\ nsnap = 0
        /\ futures = <<>> /\ fetched = <<>>
        /\ total_urls_in_queue = 0 /\ processed_urls = 0 /\ failed_urls = 0
        /\ stats_lock = 0
        /\ msg = CASE mpc = "main" -> "none"
                   [] argc # 2 -> "usage"
                   [] OTHER -> "nofile"

C10_Witness == mpc = "exit" /\ argc = 2 /\ ~exists /\ msg = "nofile" /\ file # <<>>

\* C11: with an empty input file total_urls_in_queue is 0, the size snapshot
\* is 0, no task is submitted, nothing is fetched, nothing of a status block
\* is written, and process_urls is not left by an exception.
C11_EmptyFileNoWork ==
    file = <<>> =>
        /\ total_urls_in_queue = 0 /\ url_queue = <<>> /\ nsnap = 0
        /\ futures = <<>> /\ fetched = <<>>
        /\ processed_urls = 0 /\ failed_urls = 0
        /\ term = NoRender({0}) /\ stats_lock = 0
        /\ mpc \notin {"unwind", "raised", "crashed"}

C11_Witness == file = <<>> /\ argc = 2 /\ exists /\ mpc = "exit"

InRender(t) == futures[t].pc \in {"load", "store"}

\* C14: at most one task is between the acquire and the release of
\* stats_lock; from its erase to its last print the render on the terminal
\* is that task's, and no render is open when no task is in the section.
C14_RendersSerialized ==
    /\ Cardinality({t \in Tasks : InRender(t)}) <= 1
    /\ \A t \in Tasks : InRender(t) => stats_lock = t /\ term.owner = t
    /\ (\A t \in Tasks : ~InRender(t)) => stats_lock = 0 /\ term.owner = 0

C14_Witness ==
    \E t, u \in Tasks : t # u /\ futures[t].pc = "store" /\ futures[u].pc = "lock"

\* C15: the erase that starts a render removes exactly the lines the
\* previous render printed (none before the first), and a render whose
\* prints all succeed prints a block of 4 lines.
C15_EraseMatchesLastRender ==
    [][/\ (term'.owner # 0 /\ term'.owner # term.owner) => term'.erased = term.printed
       /\ (term.owner # 0 /\ term'.owner = 0 /\ Cardinality(term'.printed) = 1) =>
              term'.printed = {4}]_vars

AllDrained ==
    /\ url_queue = <<>>
    /\ Len(futures) = nsnap
    /\ \A t \in Tasks : futures[t].st = "done"

\* C16: a run that entered process_urls ends only with process_urls returned,
\* every submitted task in a terminal state and the queue empty: under fair
\* scheduling the run goes on until no thread can take a step, so where it
\* ends is what it eventually reaches.
C16_RunDrainsAndReturns ==
    (argc = 2 /\ exists /\ mpc \in {"exit", "crashed"}) => (mpc = "exit" /\ AllDrained)

\* The part of C16 the code does keep: such a run eventually leaves
\* process_urls, by return or by exception, with all tasks ended and the
\* queue empty.
RunEndsDrained == (mpc = "submit") ~> (mpc \in {"returned", "raised"} /\ AllDrained)

\* C17: whenever the submit loop is about to call url_queue.get() the queue
\* holds an entry; the dequeues done never exceed the size snapshot and equal
\* it, and the number of entries enqueued, once the loop has ended.
C17_DequeueOnlyWhenNonEmpty ==
    LET dequeues == total_urls_in_queue - Len(url_queue)
    IN  /\ (mpc = "submit" /\ Len(futures) < nsnap) => url_queue # <<>>
        /\ mpc # "read" => dequeues <= nsnap
        /\ mpc \in {"await", "shutdown", "unwind", "returned", "raised"} =>
               dequeues = nsnap /\ nsnap = total_urls_in_queue

C17_Witness == mpc = "submit" /\ nsnap = 2 /\ Len(futures) = 1 /\ Len(url_queue) = 1

\* C18 as stated: the running tasks do the dequeues, so the entries taken
\* from the queue never outnumber the tasks that have begun to execute.
C18_TasksDequeue == total_urls_in_queue - Len(url_queue) <= Len(fetched)

\* C18 as amended: the main thread dequeues one URL per task when it submits
\* it; every submitted task, queued ones included, holds the entry of its
\* position, and the entries taken from the queue are the tasks submitted.
C18_MainThreadDequeues ==
    (mpc \notin {"main", "read"} /\ futures # <<>>) =>
        LET entries == FileEntries(file)
        IN  /\ total_urls_in_queue - Len(url_queue) = Len(futures)
            /\ Len(futures) <= Len(entries)
            /\ \A t \in Tasks : futures[t].url = entries[t]

C18_Witness ==
    /\ mpc = "submit" /\ Len(futures) = 1 /\ futures[1].st = "queued"
    /\ fetched = <<>> /\ Len(url_queue) = 1
(* the line as the file holds it, without its line terminator *)
chomp(line) ==
    IF line # <<>> /\ line[Len(line)] = "\n" THEN SubSeq(line, 1, Len(line) - 1) ELSE line

IsUrl(s) == startswith(s, SchemeHttp) \/ startswith(s, SchemeHttps)

\* C12: every entry of the queue begins with 'http://' or 'https://'.
C12_EntriesHaveScheme == \A i \in 1..Len(url_queue) : IsUrl(url_queue[i])

\* what C13 says a line l adds to the queue
Claimed13(l) ==
    LET h == IF startswith(l, PfxWww) THEN SubSeq(l, Len(PfxWww) + 1, Len(l)) ELSE l
    IN  IF startswith(l, PfxHttp) \/ startswith(l, PfxHttps)
        THEN <<l>>
        ELSE <<SchemeHttp \o h, SchemeHttps \o h>>

RECURSIVE ClaimedQueue(_)
ClaimedQueue(ls) ==
    IF ls = <<>> THEN <<>> ELSE Claimed13(Head(ls)) \o ClaimedQueue(Tail(ls))

\* C13 as stated: after any number of lines, none blank, the queue holds, in file
\* order, for each line the line itself if it starts with 'http' or 'https',
\* else 'http://' + h and 'https://' + h, h the line less one leading
\* 'www.'; total_urls_in_queue is the number of entries.
C13_EntriesOfTheLine ==
    LET ls == [i \in 1..lineIdx |-> chomp(file[i])]
    IN  (\A i \in 1..lineIdx : strip(file[i]) # <<>>) =>
            /\ url_queue = ClaimedQueue(ls)
            /\ total_urls_in_queue = Len(url_queue)

\* C13 as amended: the same of the lines with their surrounding whitespace
\* stripped, for lines that are non-empty once stripped.
C13_EntriesOfTheStrippedLine ==
    LET ls == [i \in 1..lineIdx |-> strip(file[i])]
    IN  (\A i \in 1..lineIdx : ls[i] # <<>>) =>
            /\ url_queue = ClaimedQueue(ls)
            /\ total_urls_in_queue = Len(url_queue)

C13_Witness ==
    /\ lineIdx = 2 /\ file = <<LinePaddedWww, LinePaddedUrl>>
    /\ Len(url_queue) = 3 /\ total_urls_in_queue = 3

\* C19: reading a line that is empty once stripped adds no entry to the
\* queue and leaves total_urls_in_queue unchanged.
C19_BlankLinesAddNothing ==
    [][(mpc = "read" /\ lineIdx < Len(file) /\ strip(file[lineIdx + 1]) = <<>>) =>
           (url_queue' = url_queue /\ total_urls_in_queue' = total_urls_in_queue)]_vars
Waiting(t) == t \in Tasks /\ futures[t].pc = "lock"

\* C20: stats_lock is held only by a task that is inside
\* update_and_print_statistics, between the acquire and the end of the with
\* block, whatever raised in it; and under fair scheduling every task that
\* waits for the lock eventually gets it.
C20_LockReleasedOnEveryPath ==
    /\ [](stats_lock # 0 => (stats_lock \in Tasks /\ InRender(stats_lock)))
    /\ \A t \in TaskIds : Waiting(t) ~> ~Waiting(t)

C20_Witness ==
    /\ stats_lock = 0
    /\ \E t, u \in Tasks :
          /\ t # u
          /\ futures[t].result = "exception" /\ futures[t].incs # <<>>
          /\ futures[u].incs # <<>> /\ futures[u].result = "none"
====
